---- MODULE Spec2Model ----
(***************************************************************************)
(* Model of the multi-game autosplitter's timer coordinator                *)
(* (src/src/autosplitter.rs, AutoSplitter::update_loop) as driven by the   *)
(* dispatch loop of src/src/lib.rs and the per-game attached() loops.      *)
(*                                                                         *)
(* A polling cycle of the model is one call of update_loop followed by the *)
(* next_tick().await every caller performs after it.  The values the call  *)
(* reads from its environment (the GUI settings, the host timer's state    *)
(* and the five predicates of the attached game) are inputs of the call;   *)
(* they are kept until the yield, together with the coordinator state at   *)
(* the start of the call and the timer commands the call issued, so that   *)
(* properties of a single tick are state predicates.                       *)
(***************************************************************************)
EXTENDS Integers, Sequences, FiniteSets, TLC

VARIABLES
    state,          \* AutoSplitter.state : AutoSplitterState
    settings,       \* AutoSplitter.settings as read by settings.update()
    game_splitter,  \* argument of the last update_loop call: None or the game's predicates
    timer_state,    \* timer::state() as observed by the last update_loop call
    old_state,      \* AutoSplitter.state at the start of the last update_loop call
    commands,       \* timer commands issued by the last update_loop call, in order
    panicked,       \* TRUE once update_loop has hit todo!()
    pc,             \* "ticked": update_loop has returned; "yielded": in next_tick().await
    awaiting,       \* the await at which async main is suspended
    calls,          \* number of update_loop calls made by the current poll of async main
    polled,         \* TRUE: the poll has returned Pending; FALSE: the runtime is about to poll
    version_data,   \* SupportedGameVersions::VERSION_DATA of the build
    module_offset,  \* base address of the game's main module
    memory,         \* the game process's memory: its bytes and how much of it is mapped
    pointers,       \* what the last find_gamevar_pointers call returned
    looked,         \* TRUE: pointers was computed from the current memory
    sample,         \* a game state watcher
    sample_before,  \* the watcher before its last update
    read,           \* result of the last memory read for the watcher, None before the first
    read_before,    \* result of the read before that, None if there was none
    rorr_game_state,\* risk_of_rain_returns::Game.game_state : GameVars
    rorr_settings,  \* risk_of_rain_returns::Game.settings : GameSettings
    resolves,       \* number of find_gamevar_pointers calls made by the current poll
    refreshes,      \* number of watcher updates made by the current poll
    ror1_game_state,\* risk_of_rain::Game.game_state : GameVars
    ror1_settings,  \* risk_of_rain::Game.settings : GameSettings
    installed,      \* the games whose process can show up on this machine
    first_tick,     \* TRUE: the last poll ran the first turn of the loop of attached()
    recovered,      \* TRUE: the last poll read the room after the turn before had failed to
    discarded       \* the room watcher reset_state threw away, on record until the
                    \* first turn of the loop of this attach is over

coordinator_vars ==
    <<state, settings, game_splitter, timer_state, old_state, commands, panicked, pc>>

main_vars == <<awaiting, calls, polled>>

resolver_vars == <<version_data, module_offset, memory, pointers, looked>>

sample_vars == <<sample, sample_before, read, read_before>>

rorr_vars == <<rorr_game_state, rorr_settings, resolves, refreshes>>

ror1_vars == <<ror1_game_state, ror1_settings>>

attach_vars == <<installed, first_tick, recovered, discarded>>

vars ==
    <<coordinator_vars, main_vars, resolver_vars, sample_vars, rorr_vars, ror1_vars,
      attach_vars>>

(* What the actions of each part of the model leave alone. *)
outside_coordinator ==
    <<main_vars, resolver_vars, sample_vars, rorr_vars, ror1_vars, attach_vars>>

outside_main == <<resolver_vars, sample_vars, rorr_vars, ror1_vars, attach_vars>>

outside_resolver ==
    <<coordinator_vars, main_vars, sample_vars, rorr_vars, ror1_vars, attach_vars>>

outside_sample ==
    <<coordinator_vars, main_vars, resolver_vars, rorr_vars, ror1_vars, attach_vars>>

(* Option<T>: None is the empty sequence, Some(x) the one-element sequence. *)
None == <<>>

Some(x) == <<x>>

Option(T) == {None} \cup {Some(x) : x \in T}

(* asr::timer::TimerState is #[non_exhaustive]; "Unrecognized" stands for  *)
(* any variant added after the five the coordinator names.                 *)
TimerState == {"NotRunning", "Running", "Paused", "Ended", "Unknown", "Unrecognized"}

AutoSplitterSettings == [start : BOOLEAN, split : BOOLEAN, reset : BOOLEAN]

AutoSplitterState == [switching_games : BOOLEAN, autoreset_lockout : BOOLEAN, was_loading : BOOLEAN]

(* The values the five splitting-logic methods of the trait return on one tick. *)
GameAutoSplitter ==
    [start : BOOLEAN, reset : BOOLEAN, split : BOOLEAN, completed : BOOLEAN,
     is_loading : Option(BOOLEAN)]

AutoSplitterState_default ==
    [switching_games |-> FALSE, autoreset_lockout |-> FALSE, was_loading |-> FALSE]

AutoSplitterSettings_default == [start |-> TRUE, split |-> TRUE, reset |-> TRUE]

(* The part of the AutoSplitter a tick works on: its state, the commands   *)
(* sent to the timer so far in this tick, and whether it has panicked.     *)
Ctx(s) == [state |-> s, commands |-> <<>>, panicked |-> FALSE]

timer_start(c) == [c EXCEPT !.commands = Append(@, "start")]
timer_reset(c) == [c EXCEPT !.commands = Append(@, "reset")]
timer_split(c) == [c EXCEPT !.commands = Append(@, "split")]
timer_pause_game_time(c) == [c EXCEPT !.commands = Append(@, "pause_game_time")]
timer_resume_game_time(c) == [c EXCEPT !.commands = Append(@, "resume_game_time")]
timer_set_game_time_zero(c) == [c EXCEPT !.commands = Append(@, "set_game_time(ZERO)")]

reset_state(c) == [c EXCEPT !.state = AutoSplitterState_default]

(* The workaround forgotten: the game-time clock is left where it was. *)
initialize_game_time_workaround_Skipped(c) == c

initialize_game_time_workaround(c) == timer_set_game_time_zero(c)

should_start(g) == g.start

(* The lockout not consulted. *)
should_reset_NoLockout(c, g) == g.reset

should_reset(c, g) == ~c.state.autoreset_lockout /\ g.reset

should_split(g) == g.split

game_completed(g) == g.completed

(* The undetermined case taken as "not loading" (unwrap_or_default). *)
unwrap_or_False(opt, dflt) == IF opt = None THEN FALSE ELSE opt[1]

unwrap_or(opt, dflt) == IF opt = None THEN dflt ELSE opt[1]

(* The game swap not counted as loading. *)
is_loading_GameOnly(c, g) == unwrap_or(g.is_loading, c.state.was_loading)

is_loading(c, g) ==
    c.state.switching_games \/ unwrap_or(g.is_loading, c.state.was_loading)

(* The pause re-sent on every disconnected tick of a game swap. *)
Disconnected_NoWasLoadingCheck(c, ts) ==
    IF ts \in {"Running", "Paused"}
    THEN IF c.state.switching_games
         THEN [timer_pause_game_time(c) EXCEPT !.state.was_loading = TRUE]
         ELSE c
    ELSE IF ts = "Ended" THEN reset_state(c)
    ELSE c

(* The state reset on every stopped timer, not only on Ended. *)
Disconnected_ResetWhenStopped(c, ts) ==
    IF ts \in {"Running", "Paused"}
    THEN IF c.state.switching_games /\ ~c.state.was_loading
         THEN [timer_pause_game_time(c) EXCEPT !.state.was_loading = TRUE]
         ELSE c
    ELSE IF ts \in {"Ended", "NotRunning"} THEN reset_state(c)
    ELSE c

(* update_loop, lines 57-71: disconnected from all games *)
Disconnected(c, ts) ==
    IF ts \in {"Running", "Paused"}
    THEN IF c.state.switching_games /\ ~c.state.was_loading
         THEN [timer_pause_game_time(c) EXCEPT !.state.was_loading = TRUE]
         ELSE c
    ELSE IF ts = "Ended" THEN reset_state(c)
    ELSE c

(* The state reset moved inside the settings.start test. *)
NotRunningArm_ResetOnlyIfAllowed(c, g, s) ==
    IF should_start(g) /\ s.start
    THEN reset_state(initialize_game_time_workaround(timer_start(c)))
    ELSE c

(* update_loop, lines 77-85 *)
NotRunningArm(c, g, s) ==
    IF should_start(g)
    THEN reset_state(IF s.start
                     THEN initialize_game_time_workaround(timer_start(c))
                     ELSE c)
    ELSE c

(* The reset decided from the game alone, bypassing should_reset. *)
ResetLogic_IgnoreLockout(c, g, s) ==
    IF g.reset /\ s.reset
    THEN reset_state(timer_reset(c))
    ELSE c

(* update_loop, lines 88-92 *)
ResetLogic(c, g, s) ==
    IF should_reset(c, g) /\ s.reset
    THEN reset_state(timer_reset(c))
    ELSE c

(* The completion split made subject to settings.split. *)
SplittingLogic_CompletionGated(c, g, s) ==
    IF ~c.state.switching_games
    THEN IF game_completed(g)
         THEN [(IF s.split THEN timer_split(c) ELSE c)
                  EXCEPT !.state.autoreset_lockout = TRUE,
                         !.state.switching_games = TRUE]
         ELSE IF should_split(g)
         THEN [(IF s.split THEN timer_split(c) ELSE c)
                  EXCEPT !.state.autoreset_lockout = TRUE]
         ELSE c
    ELSE c

(* The lockout armed only when the split is actually sent. *)
SplittingLogic_LockoutOnEmit(c, g, s) ==
    IF ~c.state.switching_games
    THEN IF game_completed(g)
         THEN [timer_split(c) EXCEPT !.state.autoreset_lockout = TRUE,
                                     !.state.switching_games = TRUE]
         ELSE IF should_split(g) /\ s.split
         THEN [timer_split(c) EXCEPT !.state.autoreset_lockout = TRUE]
         ELSE c
    ELSE c

(* The completion not arming the lockout. *)
SplittingLogic_CompletionWithoutLockout(c, g, s) ==
    IF ~c.state.switching_games
    THEN IF game_completed(g)
         THEN [timer_split(c) EXCEPT !.state.switching_games = TRUE]
         ELSE IF should_split(g)
         THEN [(IF s.split THEN timer_split(c) ELSE c)
                  EXCEPT !.state.autoreset_lockout = TRUE]
         ELSE c
    ELSE c

(* The else between the completion test and the split test missing. *)
SplittingLogic_SplitAfterCompletion(c, g, s) ==
    IF ~c.state.switching_games
    THEN LET done == IF game_completed(g)
                     THEN [timer_split(c) EXCEPT !.state.autoreset_lockout = TRUE,
                                                 !.state.switching_games = TRUE]
                     ELSE c
         IN  IF should_split(g)
             THEN [(IF s.split THEN timer_split(done) ELSE done)
                      EXCEPT !.state.autoreset_lockout = TRUE]
             ELSE done
    ELSE c

(* update_loop, lines 93-105 *)
SplittingLogic(c, g, s) ==
    IF ~c.state.switching_games
    THEN IF game_completed(g)
         THEN [timer_split(c) EXCEPT !.state.autoreset_lockout = TRUE,
                                     !.state.switching_games = TRUE]
         ELSE IF should_split(g)
         THEN [(IF s.split THEN timer_split(c) ELSE c)
                  EXCEPT !.state.autoreset_lockout = TRUE]
         ELSE c
    ELSE c

(* The swap not ended on a tick that also reports completion. *)
ResumeAfterGameSwap_NotOnCompletion(c, g) ==
    IF c.state.switching_games /\ should_start(g) /\ ~game_completed(g)
    THEN [c EXCEPT !.state.switching_games = FALSE]
    ELSE c

(* update_loop, lines 106-109 *)
ResumeAfterGameSwap(c, g) ==
    IF c.state.switching_games /\ should_start(g)
    THEN [c EXCEPT !.state.switching_games = FALSE]
    ELSE c

(* The pause and resume sent on the level, not on the edge. *)
LoadRemoval_Flooding(c, g) ==
    IF is_loading(c, g)
    THEN [timer_pause_game_time(c) EXCEPT !.state.was_loading = TRUE]
    ELSE [timer_resume_game_time(c) EXCEPT !.state.was_loading = FALSE]

(* update_loop, lines 110-121 *)
LoadRemoval(c, g) ==
    IF is_loading(c, g)
    THEN IF ~c.state.was_loading
         THEN [timer_pause_game_time(c) EXCEPT !.state.was_loading = TRUE]
         ELSE c
    ELSE IF c.state.was_loading
         THEN [timer_resume_game_time(c) EXCEPT !.state.was_loading = FALSE]
         ELSE c

(* The load removal step run before the splitting logic. *)
RunningArm_LoadRemovalFirst(c, g, s) ==
    ResumeAfterGameSwap(SplittingLogic(LoadRemoval(ResetLogic(c, g, s), g), g, s), g)

(* update_loop, lines 87-122 *)
RunningArm(c, g, s) ==
    LoadRemoval(ResumeAfterGameSwap(SplittingLogic(ResetLogic(c, g, s), g, s), g), g)

(* The Ended arm left empty. *)
Connected_EndedIgnored(c, g, ts, s) ==
    IF ts = "NotRunning" THEN NotRunningArm(c, g, s)
    ELSE IF ts \in {"Running", "Paused"} THEN RunningArm(c, g, s)
    ELSE IF ts \in {"Ended", "Unknown"} THEN c
    ELSE [c EXCEPT !.panicked = TRUE]

(* The Unknown arm missing, so that Unknown falls into the catch-all. *)
Connected_UnknownUnhandled(c, g, ts, s) ==
    IF ts = "NotRunning" THEN NotRunningArm(c, g, s)
    ELSE IF ts \in {"Running", "Paused"} THEN RunningArm(c, g, s)
    ELSE IF ts = "Ended" THEN reset_state(c)
    ELSE [c EXCEPT !.panicked = TRUE]

(* update_loop, lines 73-128: connected to any game *)
Connected(c, g, ts, s) ==
    IF ts = "NotRunning" THEN NotRunningArm(c, g, s)
    ELSE IF ts \in {"Running", "Paused"} THEN RunningArm(c, g, s)
    ELSE IF ts = "Ended" THEN reset_state(c)
    ELSE IF ts = "Unknown" THEN c
    ELSE [c EXCEPT !.panicked = TRUE]

(* The whole of update_loop as a function of what it reads. *)
update_loop_result(st, g, ts, s) ==
    IF g = None
    THEN Disconnected(Ctx(st), ts)
    ELSE Connected(Ctx(st), g[1], ts, s)

update_loop(g, ts, s) ==
    /\ pc = "yielded"
    /\ ~panicked
    /\ LET r == update_loop_result(state, g, ts, s) IN
        /\ state' = r.state
        /\ commands' = r.commands
        /\ panicked' = r.panicked
    /\ settings' = s
    /\ game_splitter' = g
    /\ timer_state' = ts
    /\ old_state' = state
    /\ pc' = "ticked"

(* AutoSplitter::new *)
InitAutoSplitter ==
    /\ state = AutoSplitterState_default
    /\ settings = AutoSplitterSettings_default
    /\ game_splitter = None
    /\ timer_state = "Unknown"
    /\ old_state = AutoSplitterState_default
    /\ commands = <<>>
    /\ panicked = FALSE
    /\ pc = "yielded"

(* async main before its first poll *)
InitMain ==
    /\ awaiting = "start"
    /\ calls = 0
    /\ polled = FALSE

(* No game process looked at yet. *)
InitNoProcess ==
    /\ version_data = <<>>
    /\ module_offset = 0
    /\ memory = [bytes |-> <<>>, mapped |-> 0]
    /\ pointers = None
    /\ looked = FALSE

(* A watcher as GameVars::default() makes it, never updated. *)
InitSample ==
    /\ sample = [previous |-> None, latest |-> None]
    /\ sample_before = [previous |-> None, latest |-> None]
    /\ read = <<>>
    /\ read_before = <<>>

(* risk_of_rain_returns::Game::new; rorr_stages defaults to false *)
InitRorrGame ==
    /\ rorr_game_state = [room |-> [previous |-> None, latest |-> None],
                          in_game_time |-> [previous |-> None, latest |-> None]]
    /\ rorr_settings = [rorr_stages |-> FALSE]
    /\ resolves = 0
    /\ refreshes = 0

(* risk_of_rain::Game::new; ror1_stages defaults to false *)
InitRor1Game ==
    /\ ror1_game_state = [room |-> [previous |-> None, latest |-> None],
                          run_end_flag |-> [previous |-> None, latest |-> None],
                          in_game_time |-> [previous |-> None, latest |-> None]]
    /\ ror1_settings = [ror1_stages |-> FALSE]

(* No attach has been polled. *)
InitNoAttach ==
    /\ first_tick = FALSE
    /\ recovered = FALSE
    /\ discarded = [previous |-> None, latest |-> None]

InitGames == InitRorrGame /\ InitRor1Game /\ InitNoAttach

Init ==
    /\ InitAutoSplitter
    /\ InitMain
    /\ InitNoProcess
    /\ InitSample
    /\ InitGames
    /\ installed = {"ror1", "ror2", "rorr"}

(* lib.rs main: no game process can be attached *)
TickDisconnected ==
    /\ \E ts \in TimerState, s \in AutoSplitterSettings : update_loop(None, ts, s)
    /\ UNCHANGED outside_coordinator

(* Game::attached of each game: update_loop(Some(self)) *)
TickConnected ==
    /\ \E g \in GameAutoSplitter, ts \in TimerState, s \in AutoSplitterSettings :
           update_loop(Some(g), ts, s)
    /\ UNCHANGED outside_coordinator

(* next_tick().await after every update_loop call: the call's argument,    *)
(* the timer state it observed and the commands it issued are gone; the    *)
(* AutoSplitter (state and settings) lives on.                             *)
next_tick ==
    /\ pc = "ticked"
    /\ ~panicked
    /\ pc' = "yielded"
    /\ game_splitter' = None
    /\ timer_state' = "Unknown"
    /\ commands' = <<>>
    /\ old_state' = state
    /\ UNCHANGED <<state, settings, panicked>>
    /\ UNCHANGED outside_coordinator

Next == TickDisconnected \/ TickConnected \/ next_tick

Spec == Init /\ [][Next]_vars

TypeOK ==
    /\ state \in AutoSplitterState
    /\ settings \in AutoSplitterSettings
    /\ game_splitter \in Option(GameAutoSplitter)
    /\ timer_state \in TimerState
    /\ old_state \in AutoSplitterState
    /\ panicked \in BOOLEAN
    /\ pc \in {"yielded", "ticked"}
    /\ calls \in Nat
    /\ polled \in BOOLEAN

(***************************************************************************)
(* The dispatch loop of async main (src/src/lib.rs) and the attached()     *)
(* futures of the three games, one poll at a time.  The runtime polls      *)
(* async main once per polling interval; a poll runs until the next await  *)
(* that is not ready.  The awaits are next_tick() itself and the library   *)
(* waits (retry, wait_module_range, wait_attach...), which call their      *)
(* closure and, if it fails, await next_tick() and try again.              *)
(* process.until_closes(f) tests process.is_open() at the start of every   *)
(* poll and drops f if the process has gone.                               *)
(***************************************************************************)
Games == {"ror1", "ror2", "rorr"}

(* The awaits of Game::attached in program order; the last one is the      *)
(* next_tick().await that ends the body of its loop.                       *)
Awaits(G) ==
    CASE G = "ror1" -> <<"ror1::retry(get_module_range)", "ror1::next_tick">>
      [] G = "ror2" -> <<"ror2::Module::wait_attach_auto_detect",
                         "ror2::SceneManager::wait_attach",
                         "ror2::retry(get_current_scene_path)",
                         "ror2::next_tick">>
      [] G = "rorr" -> <<"rorr::wait_module_range",
                         "rorr::retry(find_gamevar_pointers)",
                         "rorr::next_tick">>

AwaitsOfGames == UNION {{Awaits(G)[k] : k \in DOMAIN Awaits(G)} : G \in Games}

(* The cycle's update_loop call: the body of the loop of attached(), or    *)
(* the else branch of main.                                                *)
call_update_loop(g) ==
    /\ \E ts \in TimerState, s \in AutoSplitterSettings : update_loop(g, ts, s)
    /\ calls' = calls + 1

(* lib.rs line 28: main's own next_tick().await, reached without a call of *)
(* update_loop in this poll.                                               *)
main_next_tick ==
    /\ awaiting' = "main::next_tick"
    /\ calls' = calls
    /\ UNCHANGED coordinator_vars

(* The body of the loop of Game::attached: the game refreshes its watchers *)
(* and settings (here: whatever its five methods then return) and calls    *)
(* update_loop(Some(self)), then awaits next_tick().                       *)
attached_loop(G) ==
    /\ \E g \in GameAutoSplitter : call_update_loop(Some(g))
    /\ awaiting' = Awaits(G)[Len(Awaits(G))]

(* Game::attached of game G resumed at its k-th await: the waits k..j-1    *)
(* are over, and either wait j is not (Pending), or all are and the loop   *)
(* runs.  risk_of_rain_2 returns instead of entering its loop when neither *)
(* image is found (line 103).                                              *)
attached(G, k) ==
    \E j \in k..Len(Awaits(G)) :
        IF j < Len(Awaits(G))
        THEN /\ awaiting' = Awaits(G)[j]
             /\ calls' = calls
             /\ UNCHANGED coordinator_vars
        ELSE IF G = "ror2" /\ k < Len(Awaits(G))
        THEN \E image \in BOOLEAN :
                 IF image THEN attached_loop(G) ELSE main_next_tick
        ELSE attached_loop(G)

(* process.until_closes(attached(..)) polled *)
until_closes(G, k) ==
    \E is_open \in BOOLEAN :
        IF is_open THEN attached(G, k) ELSE main_next_tick

(* lib.rs lines 18-28 with no attachable process: update_loop(None) *)
MainNoProcess ==
    /\ ~polled /\ ~panicked
    /\ awaiting \in {"start", "main::next_tick"}
    /\ call_update_loop(None)
    /\ awaiting' = "main::next_tick"
    /\ polled' = TRUE
    /\ UNCHANGED outside_main

(* lib.rs lines 19-24: attach_any of some game succeeds *)
MainAttach ==
    /\ ~polled /\ ~panicked
    /\ awaiting \in {"start", "main::next_tick"}
    /\ \E G \in Games : until_closes(G, 1)
    /\ polled' = TRUE
    /\ UNCHANGED outside_main

(* async main polled while suspended inside Game::attached *)
PollAttached ==
    /\ ~polled /\ ~panicked
    /\ \E G \in Games : \E k \in DOMAIN Awaits(G) :
           /\ awaiting = Awaits(G)[k]
           /\ until_closes(G, k)
    /\ polled' = TRUE
    /\ UNCHANGED outside_main

(* The runtime starts the next polling cycle: what the previous poll left  *)
(* on record is gone.                                                      *)
runtime_update ==
    /\ polled /\ ~panicked
    /\ polled' = FALSE
    /\ calls' = 0
    /\ pc' = "yielded"
    /\ game_splitter' = None
    /\ timer_state' = "Unknown"
    /\ commands' = <<>>
    /\ old_state' = state
    /\ UNCHANGED <<state, settings, panicked, awaiting>>
    /\ UNCHANGED outside_main

NextMain == MainNoProcess \/ MainAttach \/ PollAttached \/ runtime_update

SpecMain == Init /\ [][NextMain]_vars

TypeOKMain ==
    /\ TypeOK
    /\ awaiting \in {"start", "main::next_tick"} \cup AwaitsOfGames

(***************************************************************************)
(* The version detection of Risk of Rain Returns                           *)
(* (src/src/game/risk_of_rain_returns.rs, mod version_details).            *)
(*                                                                         *)
(* The process's memory is a sequence of bytes of which a prefix is        *)
(* mapped; address a is the (a+1)-th byte.  A read succeeds iff all the    *)
(* bytes it asks for are mapped.  A build's VERSION_DATA is a sequence of  *)
(* build strings; the offsets of the i-th entry are told apart by i.       *)
(***************************************************************************)
MaxByte == 1

MaxSigLen == 2

MaxAddress == 1

MaxProfiles == 2

MaxModuleOffset == 1

MemSize == 4

Byte == 0..MaxByte

Strings == UNION {[1..n -> Byte] : n \in 1..MaxSigLen}

BuildString == [address : 0..MaxAddress, expected : Strings]

GameVarOffsets(i) == [room |-> <<100 + i>>, in_game_time |-> <<200 + i, i>>]

GameVersionData(i, bs) == [build_string |-> bs, offsets |-> GameVarOffsets(i)]

VersionTables ==
    UNION {{[i \in 1..n |-> GameVersionData(i, t[i])] : t \in [1..n -> BuildString]}
               : n \in 1..MaxProfiles}

Memories == [bytes : [1..MemSize -> Byte], mapped : 0..MemSize]

max(a, b) == IF a < b THEN b ELSE a

RECURSIVE max_len(_, _)
(* max_len_all().0: the longest expected string of the first n entries *)
max_len(table, n) ==
    IF n = 0 THEN 0
    ELSE max(max_len(table, n - 1), Len(table[n].build_string.expected))

strbuf_len(table) == max_len(table, Len(table))

(* process.read_into_buf(address, buf): Ok with the bytes, or Err *)
read_into_buf(mem, address, len) ==
    IF address + len <= mem.mapped
    THEN Some([i \in 1..len |-> mem.bytes[address + i]])
    ELSE None

(* A read that cannot be served taken for a match. *)
check_build_string_ErrIsMatch(table, mem, base, build_string) ==
    LET buf == read_into_buf(mem, base + build_string.address, strbuf_len(table)) IN
        IF buf # None
        THEN \A i \in 1..Len(build_string.expected) : buf[1][i] = build_string.expected[i]
        ELSE TRUE

check_build_string(table, mem, base, build_string) ==
    LET buf == read_into_buf(mem, base + build_string.address, strbuf_len(table)) IN
        IF buf # None
        THEN \A i \in 1..Len(build_string.expected) : buf[1][i] = build_string.expected[i]
        ELSE FALSE

DeepPointer(base, path) == [base |-> base, path |-> path]

RECURSIVE find_from(_, _, _, _)
(* the for loop of find_gamevar_pointers from entry i on *)
find_from(table, mem, base, i) ==
    IF i > Len(table) THEN None
    ELSE IF check_build_string(table, mem, base, table[i].build_string)
    THEN Some(<<DeepPointer(base, table[i].offsets.room),
                DeepPointer(base, table[i].offsets.in_game_time)>>)
    ELSE find_from(table, mem, base, i + 1)

find_gamevar_pointers(table, mem, base) == find_from(table, mem, base, 1)

(* A build of the autosplitter looks at a process for the first time. *)
InitResolver ==
    /\ InitAutoSplitter
    /\ InitMain
    /\ InitSample
    /\ InitGames
    /\ installed = {"rorr"}
    /\ version_data \in VersionTables
    /\ module_offset \in 0..MaxModuleOffset
    /\ memory \in Memories
    /\ pointers = None
    /\ looked = FALSE

(* One attempt of retry(|| find_gamevar_pointers(process, &main_module)) *)
FindGamevarPointers ==
    /\ pointers' = find_gamevar_pointers(version_data, memory, module_offset)
    /\ looked' = TRUE
    /\ UNCHANGED <<version_data, module_offset, memory>>
    /\ UNCHANGED outside_resolver

(* The game process writes a byte of its memory. *)
ProcessWrites ==
    /\ \E a \in 1..MemSize, b \in Byte :
           /\ memory.bytes[a] # b
           /\ memory' = [memory EXCEPT !.bytes[a] = b]
    /\ looked' = FALSE
    /\ UNCHANGED <<version_data, module_offset, pointers>>
    /\ UNCHANGED outside_resolver

(* The game process maps or unmaps the end of its memory. *)
ProcessMaps ==
    /\ \E m \in {memory.mapped - 1, memory.mapped + 1} \cap (0..MemSize) :
           memory' = [memory EXCEPT !.mapped = m]
    /\ looked' = FALSE
    /\ UNCHANGED <<version_data, module_offset, pointers>>
    /\ UNCHANGED outside_resolver

NextResolver == FindGamevarPointers \/ ProcessWrites \/ ProcessMaps

SpecResolver == InitResolver /\ [][NextResolver]_vars

(***************************************************************************)
(* The game state watchers (asr::watcher::Watcher, the spec's              *)
(* Edge-Detecting Sample) and the way Game::attached feeds them.           *)
(*                                                                         *)
(* A sample holds an optional previous and an optional latest value; it    *)
(* has a pair when both are present.                                       *)
(***************************************************************************)
MaxValue == 3

Value == 0..MaxValue

Sample == [previous : Option(Value), latest : Option(Value)]

Sample_default == [previous |-> None, latest |-> None]

has_pair(w) == w.previous # None /\ w.latest # None

(* An update that does not shift the latest value into previous. *)
update_KeepsPrevious(w, new_value) ==
    IF new_value = None
    THEN [previous |-> w.latest, latest |-> None]
    ELSE IF has_pair(w)
    THEN [previous |-> w.previous, latest |-> new_value]
    ELSE [previous |-> new_value, latest |-> new_value]

(* An update that starts the pair afresh on every value. *)
update_RestartsPair(w, new_value) ==
    IF new_value = None
    THEN [previous |-> w.latest, latest |-> None]
    ELSE [previous |-> new_value, latest |-> new_value]

(* An update that ignores a missing value. *)
update_IgnoresNone(w, new_value) ==
    IF new_value = None
    THEN w
    ELSE IF has_pair(w)
    THEN [previous |-> w.latest, latest |-> new_value]
    ELSE [previous |-> new_value, latest |-> new_value]

(* Watcher::update *)
update(w, new_value) ==
    IF new_value = None
    THEN [previous |-> w.latest, latest |-> None]
    ELSE IF has_pair(w)
    THEN [previous |-> w.latest, latest |-> new_value]
    ELSE [previous |-> new_value, latest |-> new_value]

old(w) == w.previous[1]

current(w) == w.latest[1]

changed(w) == has_pair(w) /\ old(w) # current(w)

changed_to(w, x) == changed(w) /\ current(w) = x

changed_from(w, x) == changed(w) /\ old(w) = x

changed_from_to(w, a, b) == changed(w) /\ old(w) = a /\ current(w) = b

increased(w) == has_pair(w) /\ old(w) < current(w)

decreased(w) == has_pair(w) /\ old(w) > current(w)

(* The result of DeepPointer::deref: Ok(val) or Err. *)
Ok(v) == [ok |-> TRUE, val |-> v]

Err == [ok |-> FALSE, val |-> 0]

ReadResult == {Ok(v) : v \in Value} \cup {Err}

(* A failed read replaced by the type's default value. *)
ok_or_default(r) == IF r.ok THEN Some(r.val) ELSE Some(0)

(* match deref { Ok(val) => Some(val), _ => None } *)
ok(r) == IF r.ok THEN Some(r.val) ELSE None

(* One refresh of a watcher in the loop of Game::attached. *)
Refresh ==
    /\ \E r \in ReadResult :
           /\ sample' = update(sample, ok(r))
           /\ read' = Some(r)
    /\ sample_before' = sample
    /\ read_before' = read
    /\ UNCHANGED outside_sample

NextSample == Refresh

SpecSample == Init /\ [][NextSample]_vars

TypeOKSample ==
    /\ sample \in Sample
    /\ sample_before \in Sample
    /\ read \in Option(ReadResult)
    /\ read_before \in Option(ReadResult)

(***************************************************************************)
(* The Risk of Rain Returns adapter: Game::attached, polled once per       *)
(* polling cycle, and the five predicates it hands to update_loop.         *)
(*                                                                         *)
(* Under SpecRorr, memory is the image the last call of                    *)
(* find_gamevar_pointers looked at.                                        *)
(***************************************************************************)

(* VERSION_DATA: three builds, with build strings of different lengths at  *)
(* build-specific addresses.                                               *)
RorrVersionData ==
    <<GameVersionData(1, [address |-> 1, expected |-> <<0, 1>>]),
      GameVersionData(2, [address |-> 0, expected |-> <<1, 1>>]),
      GameVersionData(3, [address |-> 1, expected |-> <<1>>])>>

(* A memory image that starts with the given bytes. *)
Image(prefix, mapped) ==
    [bytes  |-> [k \in 1..MemSize |-> IF k <= Len(prefix) THEN prefix[k] ELSE 0],
     mapped |-> mapped]

(* What the game process may hold when the resolver looks: nothing mapped  *)
(* yet, the build string of one of the three builds, or another build.     *)
RorrMemories ==
    {Image(<<>>, 0), Image(<<>>, MemSize), Image(<<1, 1, 1>>, MemSize),
     Image(<<0, 0, 1>>, MemSize), Image(<<1, 0, 1, 1>>, MemSize)}

(* Room ids the room pointer may read: the lobby (4), stages (5, 6) and    *)
(* the outro cutscene (8).                                                 *)
RorrRooms == {4, 5, 6, 8}

MENU_ROOMS == {1, 2, 3, 4, 7}

GameVars_default == [room |-> Sample_default, in_game_time |-> Sample_default]

(* A reset_state that leaves the watchers as they are. *)
rorr_reset_state_KeepsWatchers(gs) == gs

(* Game::reset_state *)
rorr_reset_state(gs) == GameVars_default

rorr_start(gs) ==
    /\ has_pair(gs.room)
    /\ changed_from(gs.room, 4)
    /\ current(gs.room) \notin {2, 3, 4}

rorr_reset(gs) == has_pair(gs.room) /\ current(gs.room) = 4

rorr_split(gs, st) ==
    /\ has_pair(gs.room)
    /\ changed(gs.room)
    /\ st.rorr_stages
    /\ ~(old(gs.room) \in MENU_ROOMS \/ current(gs.room) \in MENU_ROOMS)

rorr_completed(gs) ==
    /\ has_pair(gs.room)
    /\ changed(gs.room)
    /\ current(gs.room) = 8

rorr_is_loading == Some(FALSE)

(* The adapter as update_loop sees it. *)
RorrGame(gs, st) ==
    [start      |-> rorr_start(gs),
     reset      |-> rorr_reset(gs),
     split      |-> rorr_split(gs, st),
     completed  |-> rorr_completed(gs),
     is_loading |-> rorr_is_loading]

(* A resolver that falls back to the offsets of the first build. *)
rorr_find_gamevar_pointers_Fallback(mem) ==
    LET found == find_gamevar_pointers(version_data, mem, module_offset)
    IN  IF found # None THEN found
        ELSE Some(<<DeepPointer(module_offset, version_data[1].offsets.room),
                    DeepPointer(module_offset, version_data[1].offsets.in_game_time)>>)

(* One call of the closure given to retry *)
rorr_find_gamevar_pointers(mem) ==
    find_gamevar_pointers(version_data, mem, module_offset)

(* What a poll of until_closes(attached(..)) leaves on record, for a game  *)
(* whose loop awaits in_loop and whose room watcher was room before the    *)
(* poll; starting: attached() begins.  Under SpecAdapters and SpecRorr,    *)
(* read is the result of the room read of the last poll, None if it made   *)
(* none.                                                                   *)
record_poll(in_loop, room, starting) ==
    /\ first_tick' = (awaiting # in_loop /\ awaiting' = in_loop)
    /\ recovered' = /\ awaiting = in_loop
                    /\ awaiting' = in_loop
                    /\ read = Some(Err)
                    /\ read' # Some(Err)
    /\ discarded' = IF awaiting' = "main::next_tick" \/ awaiting = in_loop
                    THEN [previous |-> None, latest |-> None]
                    ELSE IF starting THEN room ELSE discarded

(* A poll that ends without a call of update_loop and without a refresh. *)
rorr_idle(gs) ==
    /\ calls' = calls
    /\ refreshes' = 0
    /\ read' = None
    /\ rorr_game_state' = gs
    /\ UNCHANGED <<coordinator_vars, rorr_settings>>

(* The body of the loop of Game::attached: both watchers are refreshed     *)
(* from what the pointers read, the settings are refreshed, update_loop is *)
(* called with the adapter, and next_tick is awaited.                      *)
rorr_loop(gs) ==
    \E room \in {Ok(v) : v \in RorrRooms} \cup {Err}, in_game_time \in {Ok(0), Err},
       stages \in BOOLEAN, ts \in TimerState :
        LET game_state == [room         |-> update(gs.room, ok(room)),
                           in_game_time |-> update(gs.in_game_time, ok(in_game_time))]
            st == [rorr_stages |-> stages]
        IN  /\ rorr_game_state' = game_state
            /\ read' = Some(room)
            /\ refreshes' = 2
            /\ rorr_settings' = st
            /\ update_loop(Some(RorrGame(game_state, st)), ts, settings)
            /\ calls' = calls + 1
            /\ awaiting' = "rorr::next_tick"

(* Game::attached resumed at its k-th await with game state gs. *)
rorr_attached(k, gs) ==
    \/ /\ k = 1                       \* the module is not loaded yet
       /\ awaiting' = "rorr::wait_module_range"
       /\ resolves' = 0
       /\ rorr_idle(gs)
       /\ UNCHANGED <<memory, pointers>>
    \/ /\ k <= 2                      \* retry calls its closure
       /\ resolves' = 1
       /\ \E mem \in RorrMemories :
              /\ memory' = mem
              /\ pointers' = rorr_find_gamevar_pointers(mem)
              /\ IF rorr_find_gamevar_pointers(mem) = None
                 THEN /\ awaiting' = "rorr::retry(find_gamevar_pointers)"
                      /\ rorr_idle(gs)
                 ELSE rorr_loop(gs)
    \/ /\ k = 3                       \* the loop goes round
       /\ resolves' = 0
       /\ rorr_loop(gs)
       /\ UNCHANGED <<memory, pointers>>

(* process.until_closes(attached(..)) polled; when the process has closed  *)
(* the future is not polled and is dropped with its pointers, and the Game *)
(* keeps its fields.                                                       *)
rorr_until_closes(k, gs) ==
    \E is_open \in BOOLEAN :
        IF is_open THEN rorr_attached(k, gs)
        ELSE /\ awaiting' = "main::next_tick"
             /\ resolves' = 0
             /\ pointers' = None
             /\ rorr_idle(rorr_game_state)
             /\ UNCHANGED memory

(* The table of the build and the module base of the process; no process   *)
(* has been looked at.                                                     *)
InitRorr ==
    /\ InitAutoSplitter
    /\ InitMain
    /\ InitSample
    /\ InitGames
    /\ installed = {"rorr"}
    /\ version_data = RorrVersionData
    /\ module_offset \in 0..MaxModuleOffset
    /\ memory = Image(<<>>, 0)
    /\ pointers = None
    /\ looked = FALSE

(* lib.rs lines 18-28 with no attachable process: update_loop(None) *)
RorrNoProcess ==
    /\ ~polled /\ ~panicked
    /\ awaiting \in {"start", "main::next_tick"}
    /\ \E ts \in TimerState : update_loop(None, ts, settings)
    /\ calls' = calls + 1
    /\ awaiting' = "main::next_tick"
    /\ polled' = TRUE
    /\ resolves' = 0
    /\ refreshes' = 0
    /\ UNCHANGED <<rorr_game_state, rorr_settings, resolver_vars, sample_vars>>
    /\ UNCHANGED <<ror1_vars, attach_vars>>

(* lib.rs lines 23-24: the Risk of Rain Returns process is found; attached *)
(* starts with reset_state                                                 *)
RorrAttach ==
    /\ ~polled /\ ~panicked
    /\ awaiting \in {"start", "main::next_tick"}
    /\ "rorr" \in installed
    /\ rorr_until_closes(1, rorr_reset_state(rorr_game_state))
    /\ record_poll("rorr::next_tick", rorr_game_state.room, TRUE)
    /\ polled' = TRUE
    /\ UNCHANGED <<version_data, module_offset, looked, ror1_vars, installed>>
    /\ UNCHANGED <<sample, sample_before, read_before>>

(* async main polled while suspended inside Game::attached *)
RorrPoll ==
    /\ ~polled /\ ~panicked
    /\ \E k \in DOMAIN Awaits("rorr") :
           /\ awaiting = Awaits("rorr")[k]
           /\ rorr_until_closes(k, rorr_game_state)
    /\ record_poll("rorr::next_tick", rorr_game_state.room, FALSE)
    /\ polled' = TRUE
    /\ UNCHANGED <<version_data, module_offset, looked, ror1_vars, installed>>
    /\ UNCHANGED <<sample, sample_before, read_before>>

NextRorr == RorrNoProcess \/ RorrAttach \/ RorrPoll \/ runtime_update

SpecRorr == InitRorr /\ [][NextRorr]_vars

TypeOKRorr ==
    /\ awaiting \in {"start", "main::next_tick"} \cup
                    {Awaits("rorr")[k] : k \in DOMAIN Awaits("rorr")}
    /\ memory \in RorrMemories
    /\ pointers \in Option({<<DeepPointer(module_offset, version_data[i].offsets.room),
                              DeepPointer(module_offset, version_data[i].offsets.in_game_time)>> :
                            i \in DOMAIN version_data})
    /\ resolves \in 0..1
    /\ refreshes \in {0, 2}
    /\ rorr_settings \in [rorr_stages : BOOLEAN]
    /\ calls \in 0..1

(***************************************************************************)
(* The Risk of Rain adapter: Game::attached, polled once per polling       *)
(* cycle, and the five predicates it hands to update_loop.                 *)
(***************************************************************************)

(* Room ids the room pointer may read: the single player lobby (6), a      *)
(* stage (18), the online lobby (40) and the Contact Light (41).           *)
Ror1Rooms == {6, 18, 40, 41}

ror1_MENU_ROOMS == {0, 1, 2, 3, 4, 5, 9, 10, 11, 12, 13, 14, 15, 16, 17, 39}

LOBBY_ROOMS == {6, 7, 40}

ror1_GameVars_default ==
    [room |-> Sample_default, run_end_flag |-> Sample_default,
     in_game_time |-> Sample_default]

(* A reset_state that leaves the watchers as they are. *)
ror1_reset_state_KeepsWatchers(gs) == gs

(* Game::reset_state *)
ror1_reset_state(gs) == ror1_GameVars_default

ror1_start(gs) ==
    /\ has_pair(gs.room)
    /\ changed(gs.room)
    /\ old(gs.room) \in LOBBY_ROOMS
    /\ current(gs.room) \notin ror1_MENU_ROOMS

ror1_reset(gs) ==
    /\ has_pair(gs.room)
    /\ (current(gs.room) = 2 \/ current(gs.room) = 40)

ror1_split(gs, st) ==
    /\ has_pair(gs.room)
    /\ changed(gs.room)
    /\ st.ror1_stages
    /\ ~(\/ old(gs.room) \in ror1_MENU_ROOMS
         \/ current(gs.room) \in ror1_MENU_ROOMS
         \/ old(gs.room) \in LOBBY_ROOMS
         \/ current(gs.room) \in LOBBY_ROOMS)

ror1_completed(gs) ==
    /\ has_pair(gs.room)
    /\ has_pair(gs.run_end_flag)
    /\ current(gs.room) = 41
    /\ changed_from_to(gs.run_end_flag, 0, 1)

ror1_is_loading == Some(FALSE)

(* The adapter as update_loop sees it. *)
Ror1Game(gs, st) ==
    [start      |-> ror1_start(gs),
     reset      |-> ror1_reset(gs),
     split      |-> ror1_split(gs, st),
     completed  |-> ror1_completed(gs),
     is_loading |-> ror1_is_loading]

(* A poll that ends without a call of update_loop and without a refresh. *)
ror1_idle(gs) ==
    /\ calls' = calls
    /\ refreshes' = 0
    /\ read' = None
    /\ ror1_game_state' = gs
    /\ UNCHANGED <<coordinator_vars, ror1_settings>>

(* The body of the loop of Game::attached: the three watchers are          *)
(* refreshed from what the pointers read, the settings are refreshed,      *)
(* update_loop is called with the adapter, and next_tick is awaited.  The  *)
(* in-game time, which no predicate reads, is readable on every turn.      *)
ror1_loop(gs) ==
    \E room \in {Ok(v) : v \in Ror1Rooms} \cup {Err}, run_end_flag \in {Ok(0), Ok(1), Err},
       in_game_time \in {Ok(0)}, stages \in BOOLEAN, ts \in TimerState :
        LET game_state == [room         |-> update(gs.room, ok(room)),
                           run_end_flag |-> update(gs.run_end_flag, ok(run_end_flag)),
                           in_game_time |-> update(gs.in_game_time, ok(in_game_time))]
            st == [ror1_stages |-> stages]
        IN  /\ ror1_game_state' = game_state
            /\ read' = Some(room)
            /\ refreshes' = 3
            /\ ror1_settings' = st
            /\ update_loop(Some(Ror1Game(game_state, st)), ts, settings)
            /\ calls' = calls + 1
            /\ awaiting' = "ror1::next_tick"

(* Game::attached resumed at its k-th await with game state gs. *)
ror1_attached(k, gs) ==
    \/ /\ k = 1                       \* get_module_range finds neither module name
       /\ awaiting' = "ror1::retry(get_module_range)"
       /\ ror1_idle(gs)
    \/ ror1_loop(gs)                  \* the module is found, or the loop goes round

(* process.until_closes(attached(..)) polled; when the process has closed  *)
(* the future is not polled and is dropped, and the Game keeps its fields. *)
ror1_until_closes(k, gs) ==
    \E is_open \in BOOLEAN :
        IF is_open THEN ror1_attached(k, gs)
        ELSE /\ awaiting' = "main::next_tick"
             /\ ror1_idle(ror1_game_state)

(* lib.rs lines 19-20: the Risk of Rain process is found; attached starts  *)
(* with reset_state                                                        *)
Ror1Attach ==
    /\ ~polled /\ ~panicked
    /\ awaiting \in {"start", "main::next_tick"}
    /\ "ror1" \in installed
    /\ ror1_until_closes(1, ror1_reset_state(ror1_game_state))
    /\ record_poll("ror1::next_tick", ror1_game_state.room, TRUE)
    /\ polled' = TRUE
    /\ resolves' = 0
    /\ UNCHANGED <<resolver_vars, rorr_game_state, rorr_settings, installed>>
    /\ UNCHANGED <<sample, sample_before, read_before>>

(* async main polled while suspended inside Game::attached *)
Ror1Poll ==
    /\ ~polled /\ ~panicked
    /\ \E k \in DOMAIN Awaits("ror1") :
           /\ awaiting = Awaits("ror1")[k]
           /\ ror1_until_closes(k, ror1_game_state)
    /\ record_poll("ror1::next_tick", ror1_game_state.room, FALSE)
    /\ polled' = TRUE
    /\ resolves' = 0
    /\ UNCHANGED <<resolver_vars, rorr_game_state, rorr_settings, installed>>
    /\ UNCHANGED <<sample, sample_before, read_before>>

(***************************************************************************)
(* Either adapter on a machine that has one of the two games.              *)
(***************************************************************************)
InitAdapters ==
    /\ InitAutoSplitter
    /\ InitMain
    /\ InitSample
    /\ InitGames
    /\ installed \in {{"ror1"}, {"rorr"}}
    /\ version_data = RorrVersionData
    /\ module_offset = 0
    /\ memory = Image(<<>>, 0)
    /\ pointers = None
    /\ looked = FALSE

NextAdapters ==
    RorrNoProcess \/ RorrAttach \/ RorrPoll \/ Ror1Attach \/ Ror1Poll \/ runtime_update

SpecAdapters == InitAdapters /\ [][NextAdapters]_vars

TypeOKAdapters ==
    /\ installed \in {{"ror1"}, {"rorr"}}
    /\ first_tick \in BOOLEAN
    /\ recovered \in BOOLEAN
    /\ refreshes \in {0, 2, 3}
    /\ calls \in 0..1
    /\ ror1_settings \in [ror1_stages : BOOLEAN]
    /\ "ror1" \in installed => rorr_game_state = GameVars_default
    /\ "rorr" \in installed => ror1_game_state = ror1_GameVars_default

(***************************************************************************)
(* Vocabulary of the properties                                            *)
(***************************************************************************)

(* update_loop has returned and its inputs and outputs are on record. *)
Ticked == pc = "ticked"

TickWithGame == Ticked /\ game_splitter # None

TickWithoutGame == Ticked /\ game_splitter = None

(* The predicates of the attached game; only used under TickWithGame. *)
game == game_splitter[1]

RunningOrPaused == timer_state \in {"Running", "Paused"}

(* Number of times cmd was sent to the timer in the recorded tick. *)
Count(cmd) == Cardinality({i \in DOMAIN commands : commands[i] = cmd})

RunningTickWithGame == TickWithGame /\ RunningOrPaused

(***************************************************************************)
(* C1 (as stated): in a tick with a game attached, timer Running or        *)
(* Paused, switching_games false at the start, completed() true and no     *)
(* reset sent, exactly one split is sent and both autoreset_lockout and    *)
(* switching_games are true at the end, whatever start(), split(),         *)
(* is_loading() and settings.split are.                                    *)
(***************************************************************************)
C1_CompletionCase ==
    /\ RunningTickWithGame
    /\ ~old_state.switching_games
    /\ game.completed
    /\ Count("reset") = 0

C1_Original ==
    C1_CompletionCase =>
        /\ Count("split") = 1
        /\ state.autoreset_lockout
        /\ state.switching_games

(* C1 (amended): in the same case exactly one split is sent and            *)
(* autoreset_lockout is true at the end of the tick, for every value of    *)
(* settings.split; switching_games is true at the end of the tick exactly  *)
(* when start() is false, because the game-swap step of the same tick      *)
(* clears the flag when the start condition holds as well.                 *)
C1_CompletionSplitsOnce ==
    C1_CompletionCase =>
        /\ Count("split") = 1
        /\ state.autoreset_lockout
        /\ state.switching_games = ~game.start

C1_Witness ==
    /\ C1_CompletionCase
    /\ ~settings.split
    /\ ~game.start
    /\ commands[1] = "split"
    /\ state.switching_games

(***************************************************************************)
(* C2: in a tick with a game attached and timer Running or Paused, when    *)
(* reset() is true, autoreset_lockout is false and settings.reset is true, *)
(* the only command of the tick is one reset and the state equals the      *)
(* defaults at the end of the tick.                                        *)
(***************************************************************************)
C2_ResetCase ==
    /\ RunningTickWithGame
    /\ game.reset
    /\ ~old_state.autoreset_lockout
    /\ settings.reset

C2_ResetSkipsRemainingSteps ==
    C2_ResetCase =>
        /\ commands = <<"reset">>
        /\ state = AutoSplitterState_default

(***************************************************************************)
(* C3: in a tick with a game attached and timer Running or Paused, if      *)
(* autoreset_lockout is true at the start of the tick then no reset is     *)
(* sent and the state is not reset by the reset check: the lockout is      *)
(* still set at the end of the tick, and a game swap in progress is still  *)
(* in progress unless the start condition ended it.                        *)
(***************************************************************************)
C3_LockoutSuppressesReset ==
    (RunningTickWithGame /\ old_state.autoreset_lockout) =>
        /\ Count("reset") = 0
        /\ state.autoreset_lockout
        /\ (old_state.switching_games /\ ~game.start) => state.switching_games

C3_Witness ==
    /\ RunningTickWithGame
    /\ old_state.autoreset_lockout
    /\ old_state.switching_games
    /\ game.reset
    /\ settings.reset
    /\ ~game.start
    /\ state.switching_games

(***************************************************************************)
(* C4: in a tick with a game attached, timer Running or Paused,            *)
(* switching_games false, completed() false and split() true, a split is   *)
(* sent iff settings.split is true, and autoreset_lockout is true at the   *)
(* end of the tick for both values of settings.split.                      *)
(***************************************************************************)
C4_SplitCase ==
    /\ RunningTickWithGame
    /\ ~old_state.switching_games
    /\ ~game.completed
    /\ game.split

C4_LockoutArmedByCondition ==
    C4_SplitCase =>
        /\ Count("split") = (IF settings.split THEN 1 ELSE 0)
        /\ state.autoreset_lockout

C4_Witness ==
    /\ C4_SplitCase
    /\ ~settings.split
    /\ ~old_state.autoreset_lockout
    /\ Count("split") = 0
    /\ state.autoreset_lockout

(***************************************************************************)
(* C5: once autoreset_lockout is true, a tick that observes Running or     *)
(* Paused leaves it true and sends no reset, and a tick after which it is  *)
(* false has observed Ended, or NotRunning with a game attached whose      *)
(* start() is true.                                                        *)
(***************************************************************************)
C5_LockoutIsLatch ==
    [][state.autoreset_lockout =>
         /\ timer_state' \in {"Running", "Paused"} =>
                (state'.autoreset_lockout /\ \A i \in DOMAIN commands' : commands'[i] # "reset")
         /\ ~state'.autoreset_lockout =>
                \/ timer_state' = "Ended"
                \/ (timer_state' = "NotRunning" /\ game_splitter' # None
                                                /\ game_splitter'[1].start)]_vars

C5_Witness ==
    /\ RunningTickWithGame
    /\ old_state.autoreset_lockout
    /\ ~old_state.switching_games
    /\ game.reset
    /\ settings.reset
    /\ state.autoreset_lockout
    /\ Count("reset") = 0

(***************************************************************************)
(* C6: in a tick with a game attached, timer NotRunning, start() true and  *)
(* settings.start true, the commands of the tick are one start followed by *)
(* one set_game_time(ZERO) and nothing else, and the state equals the      *)
(* defaults at the end of the tick whatever it was at the start.           *)
(***************************************************************************)
C6_StartCase ==
    /\ TickWithGame
    /\ timer_state = "NotRunning"
    /\ game.start
    /\ settings.start

C6_StartEmitsStartAndBaseline ==
    C6_StartCase =>
        /\ commands = <<"start", "set_game_time(ZERO)">>
        /\ state = AutoSplitterState_default

C6_Witness ==
    /\ C6_StartCase
    /\ old_state.switching_games
    /\ old_state.was_loading
    /\ Len(commands) = 2
    /\ state = AutoSplitterState_default

(***************************************************************************)
(* C7: in a tick with a game attached and timer NotRunning, if start() is  *)
(* true and settings.start is false no command is sent and the state is    *)
(* reset to the defaults; if start() is false no command is sent and the   *)
(* state is left as it was.                                                *)
(***************************************************************************)
C7_StateResetIsUnconditional ==
    (TickWithGame /\ timer_state = "NotRunning") =>
        /\ (game.start /\ ~settings.start) =>
               (commands = <<>> /\ state = AutoSplitterState_default)
        /\ ~game.start =>
               (commands = <<>> /\ state = old_state)

C7_Witness ==
    /\ TickWithGame
    /\ timer_state = "NotRunning"
    /\ game.start
    /\ ~settings.start
    /\ old_state.autoreset_lockout
    /\ old_state.was_loading
    /\ commands = <<>>
    /\ state = AutoSplitterState_default

(***************************************************************************)
(* C8: in a tick without a game and timer Running or Paused, if            *)
(* switching_games is true and was_loading false the tick sends exactly    *)
(* one pause_game_time and sets was_loading, leaving the other two flags;  *)
(* otherwise it sends nothing and leaves the state unchanged.  A tick      *)
(* without a game that starts with was_loading true sends nothing, so the  *)
(* pause is not repeated on the following disconnected ticks.              *)
(*                                                                         *)
(* No tick starts with switching_games set and was_loading clear (the tick *)
(* that sets switching_games also runs the load-removal step), so the      *)
(* first half is stated of the disconnected branch over every value of     *)
(* AutoSplitterState as well as of the recorded ticks.                     *)
(***************************************************************************)
C8_Expected(st, cmds, res) ==
    IF st.switching_games /\ ~st.was_loading
    THEN /\ cmds = <<"pause_game_time">>
         /\ res = [st EXCEPT !.was_loading = TRUE]
    ELSE /\ cmds = <<>>
         /\ res = st

C8_DisconnectedTick ==
    (TickWithoutGame /\ RunningOrPaused) => C8_Expected(old_state, commands, state)

C8_DisconnectedBranch ==
    \A st \in AutoSplitterState, ts \in {"Running", "Paused"} :
        LET r == update_loop_result(st, None, ts, settings) IN
            C8_Expected(st, r.commands, r.state) /\ ~r.panicked

C8_PauseNotRepeated ==
    [][(state.was_loading /\ game_splitter' = None) => commands' = <<>>]_vars

C8_DisconnectedFreezeOnce ==
    [](C8_DisconnectedTick /\ C8_DisconnectedBranch) /\ C8_PauseNotRepeated

C8_Witness ==
    /\ TickWithoutGame
    /\ RunningOrPaused
    /\ old_state.switching_games
    /\ old_state.was_loading
    /\ commands = <<>>
    /\ state = old_state

(***************************************************************************)
(* C9: after a tick that observed Ended, with or without a game and for    *)
(* any predicate values, the state equals the defaults and the tick has    *)
(* sent no command.                                                        *)
(***************************************************************************)
C9_EndedResetsState ==
    (Ticked /\ timer_state = "Ended") =>
        /\ state = AutoSplitterState_default
        /\ commands = <<>>

C9_Witness ==
    /\ TickWithGame
    /\ timer_state = "Ended"
    /\ old_state.switching_games
    /\ old_state.was_loading
    /\ game.completed
    /\ game.is_loading = Some(FALSE)
    /\ state = AutoSplitterState_default

(***************************************************************************)
(* C10: while switching_games is true, a tick that observes Running or     *)
(* Paused and is not a tick of an attached game whose start() is true      *)
(* leaves switching_games true and sends neither resume_game_time nor      *)
(* split, with or without a game attached and whatever is_loading()        *)
(* returns.                                                                *)
(***************************************************************************)
C10_HandoffStaysFrozen ==
    [][(/\ state.switching_games
        /\ timer_state' \in {"Running", "Paused"}
        /\ ~(game_splitter' # None /\ game_splitter'[1].start))
       => /\ state'.switching_games
          /\ \A i \in DOMAIN commands' :
                 commands'[i] \notin {"resume_game_time", "split"}]_vars

C10_Witness ==
    /\ RunningTickWithGame
    /\ old_state.switching_games
    /\ old_state.was_loading
    /\ ~game.start
    /\ game.completed
    /\ game.is_loading = Some(FALSE)
    /\ state.switching_games
    /\ commands = <<>>

(***************************************************************************)
(* C11: in a tick with a game attached, timer Running or Paused,           *)
(* switching_games true at the start and start() true, switching_games is  *)
(* false at the end of the tick and no split is sent, also when            *)
(* completed() or split() is true in the same tick.                        *)
(***************************************************************************)
C11_HandoffCase ==
    /\ RunningTickWithGame
    /\ old_state.switching_games
    /\ game.start

C11_HandoffCompletion ==
    C11_HandoffCase =>
        /\ ~state.switching_games
        /\ Count("split") = 0

C11_Witness ==
    /\ C11_HandoffCase
    /\ game.completed
    /\ game.split
    /\ settings.split
    /\ ~state.switching_games
    /\ Count("split") = 0

(***************************************************************************)
(* The load-removal step of a tick with a game attached and timer Running  *)
(* or Paused, as seen from the tick's record.  was_loading at the start of *)
(* the step is the value the tick started with, or false if the reset      *)
(* branch has reset the state earlier in the tick; switching_games is not  *)
(* written by the step, so its value after the game-swap step is the one   *)
(* at the end of the tick.                                                 *)
(***************************************************************************)
WasLoadingBeforeLoadStep ==
    IF Count("reset") > 0 THEN FALSE ELSE old_state.was_loading

EffectiveLoading ==
    state.switching_games
        \/ (IF game.is_loading = None THEN WasLoadingBeforeLoadStep ELSE game.is_loading[1])

(***************************************************************************)
(* C12: in a tick with a game attached and timer Running or Paused,        *)
(* pause_game_time is sent iff the effective loading state is true and     *)
(* was_loading was false, resume_game_time is sent iff it is false and     *)
(* was_loading was true, each at most once and never both, and was_loading *)
(* equals the effective loading state at the end of the tick.              *)
(***************************************************************************)
C12_LoadRemovalEdgeTriggered ==
    RunningTickWithGame =>
        /\ Count("pause_game_time") =
               (IF EffectiveLoading /\ ~WasLoadingBeforeLoadStep THEN 1 ELSE 0)
        /\ Count("resume_game_time") =
               (IF ~EffectiveLoading /\ WasLoadingBeforeLoadStep THEN 1 ELSE 0)
        /\ Count("pause_game_time") + Count("resume_game_time") <= 1
        /\ state.was_loading = EffectiveLoading

C12_Witness ==
    /\ RunningTickWithGame
    /\ old_state.was_loading
    /\ ~old_state.switching_games
    /\ game.is_loading = Some(FALSE)
    /\ Count("resume_game_time") = 1
    /\ Count("pause_game_time") = 0
    /\ ~state.was_loading

(***************************************************************************)
(* C13: in a tick with a game attached and timer Running or Paused, with   *)
(* switching_games false after the game-swap step and is_loading() None,   *)
(* neither pause_game_time nor resume_game_time is sent and was_loading at *)
(* the end of the tick is what it was at the start of the load step.       *)
(***************************************************************************)
C13_UndeterminedCase ==
    /\ RunningTickWithGame
    /\ ~state.switching_games
    /\ game.is_loading = None

C13_UndeterminedKeepsLoadingState ==
    C13_UndeterminedCase =>
        /\ Count("pause_game_time") = 0
        /\ Count("resume_game_time") = 0
        /\ state.was_loading = WasLoadingBeforeLoadStep

C13_Witness ==
    /\ C13_UndeterminedCase
    /\ old_state.was_loading
    /\ Count("reset") = 0
    /\ state.was_loading
    /\ commands = <<>>

(***************************************************************************)
(* C14 (as stated): a tick ends in the panic iff it observed a timer state *)
(* outside the five named ones, and a tick that observed such a state has  *)
(* sent no command.                                                        *)
(***************************************************************************)
C14_Original ==
    Ticked =>
        /\ panicked <=> timer_state = "Unrecognized"
        /\ timer_state = "Unrecognized" => commands = <<>>

(* C14 (amended): a tick ends in the panic iff it has a game attached and  *)
(* observed a timer state outside the five named ones; a tick without a    *)
(* game that observes such a state does nothing; in both cases no command  *)
(* is sent and the state is left as it was.  No tick that observes one of  *)
(* the five named states panics.                                           *)
C14_PanicOnlyOnUnrecognizedWithGame ==
    Ticked =>
        /\ panicked <=> (timer_state = "Unrecognized" /\ game_splitter # None)
        /\ timer_state = "Unrecognized" => (commands = <<>> /\ state = old_state)

C14_Witness ==
    /\ TickWithGame
    /\ timer_state = "Unrecognized"
    /\ panicked
    /\ game.completed
    /\ old_state.autoreset_lockout
    /\ commands = <<>>

(***************************************************************************)
(* C15: a tick that observes Unknown, with or without a game, and a tick   *)
(* without a game that observes NotRunning, sends no command and leaves    *)
(* the three flags of the state unchanged.                                 *)
(***************************************************************************)
C15_NoOpCase ==
    /\ Ticked
    /\ \/ timer_state = "Unknown"
       \/ (timer_state = "NotRunning" /\ game_splitter = None)

C15_NoOpTicks ==
    C15_NoOpCase => (commands = <<>> /\ state = old_state /\ ~panicked)

C15_Witness ==
    /\ TickWithoutGame
    /\ timer_state = "NotRunning"
    /\ old_state.switching_games
    /\ old_state.was_loading
    /\ state = old_state
    /\ commands = <<>>

(***************************************************************************)
(* C16: every poll of async main, i.e. every stretch between two           *)
(* consecutive yields to the next polling interval, contains exactly one   *)
(* call of update_loop, whatever the attach state: also while an attached  *)
(* game waits for its module or its version, when the attached process is  *)
(* found closed, and when no process can be attached.                      *)
(***************************************************************************)
C16_OneTickPerPollingCycle == polled => calls = 1

(***************************************************************************)
(* Vocabulary of the version detection properties                          *)
(***************************************************************************)

(* The bytes of entry i's build string are mapped at module_offset +       *)
(* address and equal the expected string.                                  *)
SignatureEquals(i) ==
    LET bs == version_data[i].build_string
        a  == module_offset + bs.address
    IN  /\ a + Len(bs.expected) <= memory.mapped
        /\ \A k \in 1..Len(bs.expected) : memory.bytes[a + k] = bs.expected[k]

(* The pointer paths of entry i bound to the module base. *)
BoundChains(i) ==
    <<DeepPointer(module_offset, version_data[i].offsets.room),
      DeepPointer(module_offset, version_data[i].offsets.in_game_time)>>

LowestMatch(i) ==
    /\ SignatureEquals(i)
    /\ \A j \in 1..(i - 1) : ~SignatureEquals(j)

(* The read check_build_string makes for entry i cannot be served. *)
ReadFails(i) ==
    read_into_buf(memory, module_offset + version_data[i].build_string.address,
                  strbuf_len(version_data)) = None

(***************************************************************************)
(* C17: for every table and every memory content, find_gamevar_pointers    *)
(* returns the pointer chains, bound to the module base, of the            *)
(* lowest-indexed entry whose build string equals the live memory at       *)
(* module base + address, and never the chains of another entry.           *)
(***************************************************************************)
C17_FirstMatchWins ==
    looked =>
        \A i \in DOMAIN version_data :
            LowestMatch(i) => pointers = Some(BoundChains(i))

(***************************************************************************)
(* C18: find_gamevar_pointers returns None whenever no entry's build       *)
(* string equals the live memory, and whenever the read of every entry     *)
(* fails (a failed read is a non-match, never a match and never fatal);    *)
(* and a call that follows a None result on unchanged memory returns None  *)
(* again.                                                                  *)
(***************************************************************************)
C18_NoMatchIsNone ==
    looked =>
        /\ (\A i \in DOMAIN version_data : ~SignatureEquals(i)) => pointers = None
        /\ (\A i \in DOMAIN version_data : ReadFails(i)) => pointers = None

C18_NoneIsRepeated ==
    [][(looked /\ pointers = None /\ memory' = memory) => pointers' = None]_vars

C18_ResolverNeverGuesses == []C18_NoMatchIsNone /\ C18_NoneIsRepeated

C18_Witness ==
    /\ looked
    /\ Len(version_data) = 2
    /\ ReadFails(1)
    /\ ~ReadFails(2)
    /\ \A i \in DOMAIN version_data : ~SignatureEquals(i)
    /\ pointers = None

(***************************************************************************)
(* C20: the first valid update of a sample that follows a missing one, or  *)
(* that is the first since construction, leaves previous = latest = the    *)
(* new value, so that no query reports an edge right after it, whatever    *)
(* the value and whatever was seen before the gap.  The updates are the    *)
(* ones Game::attached makes: Some(v) for a read that returned Ok(v), None *)
(* for a read that failed.                                                 *)
(***************************************************************************)
C20_GapRecoveryCase ==
    /\ read # None
    /\ read[1].ok
    /\ (read_before = None \/ ~read_before[1].ok)

C20_SampleGapRecovery ==
    C20_GapRecoveryCase =>
        /\ sample.previous = Some(read[1].val)
        /\ sample.latest = Some(read[1].val)
        /\ ~changed(sample)
        /\ ~increased(sample)
        /\ ~decreased(sample)
        /\ \A x \in Value : ~changed_to(sample, x) /\ ~changed_from(sample, x)
        /\ \A x, y \in Value : ~changed_from_to(sample, x, y)

C20_Witness ==
    /\ C20_GapRecoveryCase
    /\ read_before # None
    /\ sample_before.previous # None
    /\ sample_before.previous # Some(read[1].val)
    /\ sample_before.latest = None
    /\ has_pair(sample)

(***************************************************************************)
(* C19: in the Risk of Rain Returns attach sequence no watcher is          *)
(* refreshed and update_loop is not called with the adapter (so no timer   *)
(* command comes from it) before a call of find_gamevar_pointers has       *)
(* returned the pointers of an entry whose build string is in memory;      *)
(* while no entry matches, every poll of the open process makes exactly    *)
(* one more call and stays at the retry; after a match the resolver is not *)
(* called again during that attach and the pointers stay as they are.      *)
(***************************************************************************)
RorrAtRetry == awaiting = "rorr::retry(find_gamevar_pointers)"

RorrBeforeMatch == awaiting = "rorr::wait_module_range" \/ RorrAtRetry

RorrInLoop == awaiting = "rorr::next_tick"

(* The resolver has returned the pointers of an entry whose build string   *)
(* is in the memory it looked at.                                          *)
RorrMatched ==
    \E i \in DOMAIN version_data :
        SignatureEquals(i) /\ pointers = Some(BoundChains(i))

(* A poll of async main that finds the process open. *)
RorrPolledOpen == ~polled /\ polled' /\ awaiting' # "main::next_tick"

C19_NothingBeforeMatch ==
    /\ RorrBeforeMatch =>
           /\ pointers = None
           /\ rorr_game_state = GameVars_default
    /\ polled /\ RorrBeforeMatch =>
           /\ refreshes = 0
           /\ calls = 0
           /\ game_splitter = None
           /\ commands = <<>>
    /\ polled /\ (refreshes > 0 \/ game_splitter # None) =>
           /\ RorrInLoop
           /\ RorrMatched

C19_RetryOncePerCycle ==
    [][RorrAtRetry /\ RorrPolledOpen =>
           /\ resolves' = 1
           /\ (RorrMatched' /\ RorrInLoop') \/ (pointers' = None /\ RorrAtRetry')]_vars

C19_ResolvedOnce ==
    [][RorrInLoop /\ ~polled /\ polled' =>
           /\ resolves' = 0
           /\ RorrInLoop' => pointers' = pointers /\ memory' = memory]_vars

C19_UnsupportedLayoutBlocks ==
    []C19_NothingBeforeMatch /\ C19_RetryOncePerCycle /\ C19_ResolvedOnce

(* The poll in which the resolver found a match ran the first tick of the  *)
(* adapter.                                                                *)
C19_Witness ==
    /\ polled
    /\ RorrInLoop
    /\ resolves = 1
    /\ RorrMatched
    /\ refreshes = 2
    /\ calls = 1
    /\ game_splitter # None

(***************************************************************************)
(* Vocabulary of the watcher properties                                    *)
(***************************************************************************)

(* The last update was update(Some(v)). *)
LastUpdateSome == read # None /\ read[1].ok

(* The last update was update(None). *)
LastUpdateNone == read # None /\ ~read[1].ok

(* The last two updates were update(Some(a)) then update(Some(b)). *)
LastTwoUpdatesSome == LastUpdateSome /\ read_before # None /\ read_before[1].ok

(***************************************************************************)
(* C21: wherever in a sequence of updates two consecutive update(Some(v))  *)
(* calls carry the same v, changed(), increased() and decreased() are all  *)
(* false after the second.                                                 *)
(***************************************************************************)
C21_EqualPairCase == LastTwoUpdatesSome /\ read[1].val = read_before[1].val

C21_EqualUpdatesNoEdge ==
    C21_EqualPairCase =>
        /\ ~changed(sample)
        /\ ~increased(sample)
        /\ ~decreased(sample)

(* The two equal updates follow a pair that held another value. *)
C21_Witness ==
    /\ C21_EqualPairCase
    /\ has_pair(sample_before)
    /\ old(sample_before) # current(sample_before)
    /\ has_pair(sample)

(***************************************************************************)
(* C22: update(Some(n)) on a watcher with the pair (p, l) leaves the pair  *)
(* (l, n); so after update(Some(a)) then update(Some(b)), on a watcher     *)
(* that had a pair or was fresh before, changed() holds iff a # b,         *)
(* increased() iff b > a and decreased() iff b < a.                        *)
(***************************************************************************)
C22_ShiftOnPair ==
    LastUpdateSome /\ has_pair(sample_before) =>
        sample = [previous |-> sample_before.latest, latest |-> Some(read[1].val)]

C22_EdgesOfTwoUpdates ==
    LastTwoUpdatesSome =>
        /\ has_pair(sample)
        /\ changed(sample) <=> read_before[1].val # read[1].val
        /\ increased(sample) <=> read[1].val > read_before[1].val
        /\ decreased(sample) <=> read[1].val < read_before[1].val

C22_SampleShift == C22_ShiftOnPair /\ C22_EdgesOfTwoUpdates

(* update(Some(a)) then update(Some(a + 1)): changed, increased, not       *)
(* decreased.                                                              *)
C22_Witness ==
    /\ LastTwoUpdatesSome
    /\ read[1].val = read_before[1].val + 1
    /\ has_pair(sample_before)
    /\ changed(sample) /\ increased(sample) /\ ~decreased(sample)

(***************************************************************************)
(* C23: after update(None) latest is absent, previous is what latest was   *)
(* before the call, the watcher has no pair, and changed, changed_to,      *)
(* changed_from, changed_from_to, increased and decreased are all false;   *)
(* this lasts until the next update(Some(_)).                              *)
(***************************************************************************)
AllQueriesFalse(w) ==
    /\ ~changed(w)
    /\ ~increased(w)
    /\ ~decreased(w)
    /\ \A x \in Value : ~changed_to(w, x) /\ ~changed_from(w, x)
    /\ \A a \in Value, b \in Value : ~changed_from_to(w, a, b)

C23_MissingSampleInvalidates ==
    LastUpdateNone =>
        /\ sample.latest = None
        /\ sample.previous = sample_before.latest
        /\ ~has_pair(sample)
        /\ AllQueriesFalse(sample)

(* update(None) hits a watcher whose pair held a change. *)
C23_Witness ==
    /\ LastUpdateNone
    /\ has_pair(sample_before)
    /\ changed(sample_before)
    /\ sample.previous # None

(***************************************************************************)
(* C24: on no tick are an adapter's split() and completed() both true,     *)
(* whatever its watchers hold and whatever its settings are.  Stated here  *)
(* for the Risk of Rain Returns adapter, on the ticks of its loop.         *)
(***************************************************************************)
C24_SplitExcludesCompleted ==
    polled /\ RorrInLoop =>
        ~(rorr_split(rorr_game_state, rorr_settings) /\ rorr_completed(rorr_game_state))

(***************************************************************************)
(* C25: the Risk of Rain adapter's start() is true only if the room        *)
(* watcher has a pair, the room changed on this tick, the room before is a *)
(* lobby (6, 7 or 40) and the room now is neither a menu or cutscene room  *)
(* nor a lobby; a change from one lobby to another reports no start.       *)
(***************************************************************************)
Ror1InLoop == awaiting = "ror1::next_tick"

C25_Ror1StartCondition ==
    polled /\ Ror1InLoop /\ ror1_start(ror1_game_state) =>
        /\ has_pair(ror1_game_state.room)
        /\ changed(ror1_game_state.room)
        /\ old(ror1_game_state.room) \in LOBBY_ROOMS
        /\ current(ror1_game_state.room) \notin ror1_MENU_ROOMS
        /\ current(ror1_game_state.room) \notin LOBBY_ROOMS

(***************************************************************************)
(* C26: in a tick with a game attached and the timer Running or Paused the *)
(* steps run in the order reset, split or completion, end of game swap,    *)
(* load removal, each seeing the state the earlier ones wrote.  When       *)
(* completion is detected with was_loading false and start() false,        *)
(* pause_game_time is sent in the same tick after the split, and           *)
(* was_loading is true at the end of the tick even if is_loading() is      *)
(* false; when start() is true in the tick of the completion, the game     *)
(* swap step clears the switching_games flag the completion has just set.  *)
(***************************************************************************)
C26_CompletionDetected ==
    /\ RunningTickWithGame
    /\ ~old_state.switching_games
    /\ game.completed

(* Every cmd1 of the tick was sent before every cmd2 of the tick. *)
SentBefore(cmd1, cmd2) ==
    \A i \in DOMAIN commands, j \in DOMAIN commands :
        commands[i] = cmd1 /\ commands[j] = cmd2 => i < j

C26_CommandOrder ==
    RunningTickWithGame =>
        /\ SentBefore("reset", "split")
        /\ SentBefore("reset", "pause_game_time")
        /\ SentBefore("reset", "resume_game_time")
        /\ SentBefore("split", "pause_game_time")
        /\ SentBefore("split", "resume_game_time")

C26_FreezeInCompletionTick ==
    C26_CompletionDetected /\ ~old_state.was_loading /\ ~game.start =>
        /\ Count("split") = 1
        /\ Count("pause_game_time") = 1
        /\ commands[Len(commands)] = "pause_game_time"
        /\ commands[Len(commands) - 1] = "split"
        /\ state.was_loading
        /\ state.switching_games

C26_SwapEndsInCompletionTick ==
    C26_CompletionDetected /\ game.start =>
        /\ Count("split") = 1
        /\ state.autoreset_lockout
        /\ ~state.switching_games

C26_StepOrder ==
    C26_CommandOrder /\ C26_FreezeInCompletionTick /\ C26_SwapEndsInCompletionTick

(* Completion in a tick that also resets, with a game that is not loading. *)
C26_Witness ==
    /\ C26_CompletionDetected
    /\ ~old_state.was_loading
    /\ ~game.start
    /\ game.is_loading = Some(FALSE)
    /\ commands = <<"reset", "split", "pause_game_time">>
    /\ state.was_loading

(***************************************************************************)
(* C27: check_build_string reads exactly the bytes of the entry's build    *)
(* string at module base + address, so an entry matches exactly when those *)
(* bytes are readable and equal to the build string; whether the memory    *)
(* after them is readable, and what it holds, has no influence.            *)
(***************************************************************************)
C27_MatchDependsOnOwnBytes ==
    looked =>
        \A i \in DOMAIN version_data :
            check_build_string(version_data, memory, module_offset,
                               version_data[i].build_string)
                <=> SignatureEquals(i)

(***************************************************************************)
(* Vocabulary of the adapter properties                                    *)
(***************************************************************************)

(* The last poll ran a turn of the loop of a game's attached(). *)
AdapterTicked == polled /\ (RorrInLoop \/ Ror1InLoop)

(* start(), split() and completed() of the attached adapter, computed from *)
(* its watchers and settings as they are now.                              *)
AdapterStart ==
    IF Ror1InLoop THEN ror1_start(ror1_game_state) ELSE rorr_start(rorr_game_state)

AdapterReset ==
    IF Ror1InLoop THEN ror1_reset(ror1_game_state) ELSE rorr_reset(rorr_game_state)

AdapterSplit ==
    IF Ror1InLoop THEN ror1_split(ror1_game_state, ror1_settings)
    ELSE rorr_split(rorr_game_state, rorr_settings)

AdapterCompleted ==
    IF Ror1InLoop THEN ror1_completed(ror1_game_state)
    ELSE rorr_completed(rorr_game_state)

(***************************************************************************)
(* C28: the Risk of Rain and Risk of Rain Returns adapters reset all their *)
(* watchers at the start of every attach, so on the first tick of every    *)
(* attach start(), split() and completed() are false, whatever was read in *)
(* an earlier attach and whatever is read now: a room that differs from    *)
(* the one last seen before the detach is no start, split or completion.   *)
(***************************************************************************)
C28_WatchersResetAtAttach ==
    /\ RorrBeforeMatch => rorr_game_state = GameVars_default
    /\ awaiting = "ror1::retry(get_module_range)" =>
           ror1_game_state = ror1_GameVars_default

C28_FirstTickHasNoEdge ==
    polled /\ first_tick =>
        /\ AdapterTicked
        /\ calls = 1
        /\ game_splitter # None
        /\ ~AdapterStart /\ ~AdapterSplit /\ ~AdapterCompleted
        /\ ~game.start /\ ~game.split /\ ~game.completed
        /\ Count("start") = 0
        /\ Count("split") = 0

C28_NoStateAcrossAttaches == C28_WatchersResetAtAttach /\ C28_FirstTickHasNoEdge

(* The first attach left the room watcher in the lobby (6); the first tick *)
(* of the next attach reads a stage (18) while the timer is not running.   *)
C28_Witness ==
    /\ polled
    /\ first_tick
    /\ Ror1InLoop
    /\ has_pair(discarded)
    /\ current(discarded) = 6
    /\ ror1_game_state.room = [previous |-> Some(18), latest |-> Some(18)]
    /\ timer_state = "NotRunning"
    /\ commands = <<>>

(***************************************************************************)
(* C29 (as stated): in the Risk of Rain and Risk of Rain Returns adapters, *)
(* on a tick whose room read fails start(), reset(), split() and           *)
(* completed() are all false and update_loop is still called, with no      *)
(* fatal outcome; on the first tick whose room read succeeds again         *)
(* start(), split() and completed() are still false, so a failed read      *)
(* followed by a recovery causes no start and no split command.            *)
(***************************************************************************)
C29_FailedReadTick == AdapterTicked /\ read = Some(Err)

C29_RecoveryTick == AdapterTicked /\ recovered

(* The tick of a failed room read: no predicate holds, update_loop is      *)
(* called, and it panics only on a timer state it does not know.           *)
C29_FailureAbsorbed ==
    C29_FailedReadTick =>
        /\ ~AdapterStart /\ ~AdapterReset /\ ~AdapterSplit /\ ~AdapterCompleted
        /\ calls = 1
        /\ game_splitter # None
        /\ ~game.start /\ ~game.reset /\ ~game.split /\ ~game.completed
        /\ panicked => timer_state = "Unrecognized"
        /\ Count("start") = 0 /\ Count("split") = 0 /\ Count("reset") = 0

C29_Original ==
    /\ C29_FailureAbsorbed
    /\ C29_RecoveryTick =>
           /\ ~AdapterStart /\ ~AdapterSplit /\ ~AdapterCompleted
           /\ Count("start") = 0
           /\ Count("split") = 0

(* C29 (amended): the tick of a failed room read is as stated.  On the     *)
(* first tick whose room read succeeds again start() and split() are       *)
(* false in both adapters and no start command is sent; completed() is     *)
(* false in Risk of Rain Returns, and in Risk of Rain it is true exactly   *)
(* when the room read is 41 and run_end_flag changed from 0 to 1 on this   *)
(* tick, which is the only case in which the tick sends a split.           *)
C29_ReadFailureAbsorbed ==
    /\ C29_FailureAbsorbed
    /\ C29_RecoveryTick =>
           /\ ~AdapterStart /\ ~AdapterSplit
           /\ ~game.start /\ ~game.split
           /\ Count("start") = 0
           /\ RorrInLoop => ~AdapterCompleted
           /\ Ror1InLoop =>
                  (AdapterCompleted <=>
                      /\ read = Some(Ok(41))
                      /\ changed_from_to(ror1_game_state.run_end_flag, 0, 1))
           /\ Count("split") > 0 => Ror1InLoop /\ AdapterCompleted

(* The room is read again after a failed read, in a stage and with the     *)
(* timer running; nothing is sent.                                         *)
C29_Witness ==
    /\ C29_RecoveryTick
    /\ RorrInLoop
    /\ rorr_settings.rorr_stages
    /\ read = Some(Ok(5))
    /\ rorr_game_state.room = [previous |-> Some(5), latest |-> Some(5)]
    /\ timer_state = "Running"
    /\ commands = <<>>

(***************************************************************************)
(* C30: in every state reached by any sequence of ticks (any timer state,  *)
(* game attached or not, any values of the game's predicates, any          *)
(* settings) switching_games implies autoreset_lockout; so while a game    *)
(* swap is in progress no tick sends a reset, and the reset logic of       *)
(* update_loop does not clear the state.                                   *)
(***************************************************************************)
C30_SwapImpliesLockout ==
    /\ state.switching_games => state.autoreset_lockout
    /\ old_state.switching_games => old_state.autoreset_lockout

C30_SwapTick == Ticked /\ old_state.switching_games

C30_NoResetDuringSwap ==
    C30_SwapTick =>
        /\ Count("reset") = 0
        /\ RunningOrPaused /\ game_splitter # None =>
               /\ state.autoreset_lockout
               /\ state.switching_games = ~game.start

C30_LockoutCoversSwap == C30_SwapImpliesLockout /\ C30_NoResetDuringSwap

(* During a game swap the attached game reports its reset condition, with  *)
(* resets allowed by the settings; nothing is sent and the swap goes on.   *)
C30_Witness ==
    /\ C30_SwapTick
    /\ RunningTickWithGame
    /\ game.reset
    /\ settings.reset
    /\ ~game.start
    /\ commands = <<>>
    /\ state = old_state

(***************************************************************************)
(* C31: every tick sends at most one split, at most one reset and at most  *)
(* one start; a start is sent only in a tick that saw the timer            *)
(* NotRunning; split, reset and resume_game_time are sent only in a tick   *)
(* with a game attached that saw the timer Running or Paused; and          *)
(* resume_game_time is sent only if was_loading was true, which it is only *)
(* after an earlier pause_game_time with no reset of the state since.      *)
(***************************************************************************)
C31_AtMostOnce ==
    Ticked =>
        /\ Count("split") <= 1
        /\ Count("reset") <= 1
        /\ Count("start") <= 1

C31_MatchingLifecycle ==
    Ticked =>
        /\ Count("start") > 0 => timer_state = "NotRunning"
        /\ Count("split") > 0 => RunningTickWithGame
        /\ Count("reset") > 0 => RunningTickWithGame
        /\ Count("resume_game_time") > 0 => RunningTickWithGame

(* A resume needs was_loading from before the tick, and no reset in the    *)
(* tick; was_loading becomes true only in a tick that sends the pause, and *)
(* it is false at the start and after every reset of the state.            *)
C31_ResumeFollowsPause ==
    /\ Ticked /\ Count("resume_game_time") > 0 =>
           /\ old_state.was_loading
           /\ Count("reset") = 0
           /\ Count("resume_game_time") = 1
           /\ ~state.was_loading
    /\ Ticked /\ state.was_loading /\ ~old_state.was_loading =>
           commands[Len(commands)] = "pause_game_time"
    /\ Ticked /\ state.was_loading /\ Count("reset") > 0 =>
           commands[Len(commands)] = "pause_game_time"
    /\ AutoSplitterState_default.was_loading = FALSE

C31_CommandsMatchLifecycle ==
    C31_AtMostOnce /\ C31_MatchingLifecycle /\ C31_ResumeFollowsPause

(* A tick of a running timer in which the game both completes and meets    *)
(* its split condition, and that ends a load: one split, then the resume   *)
(* is withheld because the game swap begins.                               *)
C31_Witness ==
    /\ RunningTickWithGame
    /\ ~old_state.switching_games
    /\ old_state.was_loading
    /\ game.completed /\ game.split /\ settings.split
    /\ game.is_loading = Some(FALSE)
    /\ ~game.start
    /\ commands = <<"split">>

====
